---- MODULE Spec2Model ----
(***************************************************************************)
(* StockBot.py: the price-monitoring loop (monitor_prices), its helpers    *)
(* (get_price, get_prev_close, pct_change) and the moving averages of      *)
(* create_chart_bytes.                                                     *)
(*                                                                         *)
(* Numbers.  Python floats are modelled as exact rationals                 *)
(* [tag |-> "num", n, d] with d > 0 and gcd(n, d) = 1; float rounding is   *)
(* not modelled.  None, NaN and a raised exception are records of the same *)
(* shape with another tag.                                                 *)
(*                                                                         *)
(* Time.  The local clock is the minute of the day (what                   *)
(* time.strftime("%H:%M") shows); a sleep of s seconds moves it by         *)
(* s \div 60 minutes, or one more when the seconds carry over a minute     *)
(* boundary.                                                               *)
(***************************************************************************)
EXTENDS Integers, Sequences, FiniteSets, TLC

VARIABLES
    pc,            \* position of the monitor thread: "for", "daily", "sleep", "terminated"
    idx,           \* position of the for loop in STOCKS.items()
    clock,         \* local time, minute of the day
    interval,      \* the seconds slept between two ticks (CHECK_INTERVAL)
    cur,           \* the last loop body run: symbol, price, prev, change, outcome
    sent,          \* the alerts handed to bot.send_message by the last loop body
    done,          \* the symbols whose loop body was entered in this tick
    tickErr,       \* an exception reached the except clause in this tick
    checked,       \* the 17:00 comparison was made in this tick
    lastCond,      \* per symbol, the conditions of its previous evaluated sample
    reportsToday,  \* daily reports sent on the current calendar date
    dueSeen,       \* a tick compared the time at or after 17:00 on this date
    afterError,    \* the tick in progress follows a tick that raised
    ticks,         \* ticks started so far
    fn,            \* Price Transform: the function last applied
    args,          \* its arguments
    ret,           \* its result
    figures,       \* pyplot: the open figures, the current one last
    worker         \* per worker thread running create_chart_bytes: its position

monitorVars == <<pc, idx, clock, interval, cur, sent, done, tickErr, checked,
                 lastCond, reportsToday, dueSeen, afterError, ticks>>
transformVars == <<fn, args, ret>>
chartVars == <<figures, worker>>
vars == <<pc, idx, clock, interval, cur, sent, done, tickErr, checked,
          lastCond, reportsToday, dueSeen, afterError, ticks, fn, args, ret,
          figures, worker>>

----------------------------------------------------------------------------
(* Bounds of the model *)

\* the worker threads asyncio.to_thread runs create_chart_bytes on
NumWorkers == 2

\* the first NumSymbols entries of STOCKS are monitored
NumSymbols == 2
\* the ticks a behaviour runs for
MaxTicks == 4
\* the longest close series handed to the moving averages
MaxSeriesLen == 56

----------------------------------------------------------------------------
(* Values *)

None == [tag |-> "None", n |-> 0, d |-> 1]
NaN == [tag |-> "NaN", n |-> 0, d |-> 1]
ZeroDivisionError == [tag |-> "ZeroDivisionError", n |-> 0, d |-> 1]

Abs(x) == IF x < 0 THEN -x ELSE x

RECURSIVE Gcd(_, _)
Gcd(a, b) == IF b = 0 THEN a ELSE Gcd(b, a % b)

\* the rational n/d (d # 0) in lowest terms with a positive denominator
Num(n, d) ==
    LET g == Gcd(Abs(n), Abs(d))
        s == IF d < 0 THEN -1 ELSE 1
    IN [tag |-> "num", n |-> s * (n \div g), d |-> s * (d \div g)]

IsNum(x) == x.tag = "num"
\* x >= y, x <= y, |x|, x + y, x / k on rationals
Geq(x, y) == x.n * y.d >= y.n * x.d
Leq(x, y) == x.n * y.d <= y.n * x.d
AbsNum(x) == [x EXCEPT !.n = Abs(x.n)]
Add(x, y) == Num(x.n * y.d + y.n * x.d, x.d * y.d)
DivInt(x, k) == Num(x.n, x.d * k)

\* Python truthiness of a price: None and 0.0 are falsy
Falsy(x) == x = None \/ (IsNum(x) /\ x.n = 0)

----------------------------------------------------------------------------
(* Configuration *)

STOCKS == <<
    [symbol |-> "NVDA", upper |-> Num(130, 1), lower |-> Num(110, 1), pct_trigger |-> Num(2, 1)],
    [symbol |-> "SPY",  upper |-> Num(550, 1), lower |-> Num(520, 1), pct_trigger |-> Num(3, 2)],
    [symbol |-> "AAPL", upper |-> Num(200, 1), lower |-> Num(160, 1), pct_trigger |-> Num(2, 1)],
    [symbol |-> "TSLA", upper |-> Num(300, 1), lower |-> Num(220, 1), pct_trigger |-> Num(3, 1)],
    [symbol |-> "AMZN", upper |-> Num(190, 1), lower |-> Num(160, 1), pct_trigger |-> Num(5, 2)] >>

CHECK_INTERVAL == 300
REPORT_SLEEP == 60

Symbols == {STOCKS[i].symbol : i \in 1..NumSymbols}

----------------------------------------------------------------------------
(* Price helpers *)

\* hist: the closes of data.history(period="1d"), oldest first
get_price(hist) ==
    IF Len(hist) = 0 THEN None ELSE hist[Len(hist)]

\* hist: the closes of data.history(period="2d"), oldest first
get_prev_close(hist) ==
    IF Len(hist) < 2 THEN None ELSE hist[Len(hist) - 1]

\* (now - then) / then * 100; a zero divisor raises (Python floats)
pct_change(now, then) ==
    IF now = None \/ then = None THEN None
    ELSE IF then.n = 0 THEN ZeroDivisionError
    ELSE Num((now.n * then.d - then.n * now.d) * then.d * 100, now.d * then.d * then.n)

----------------------------------------------------------------------------
(* Moving averages *)

\* the windows of ma20 and ma50
MA_WINDOWS == {20, 50}

Max(a, b) == IF a >= b THEN a ELSE b

\* the sum of the observations among the closes at the indices lo..hi
RECURSIVE SumAt(_, _, _)
SumAt(prices, lo, hi) ==
    IF lo > hi THEN Num(0, 1)
    ELSE IF lo = hi THEN (IF IsNum(prices[lo]) THEN prices[lo] ELSE Num(0, 1))
    ELSE LET mid == (lo + hi) \div 2
         IN Add(SumAt(prices, lo, mid), SumAt(prices, mid + 1, hi))

\* Series.rolling(w, min_periods).mean(): at each index the mean of the
\* observations among the trailing w entries, NaN when there are fewer than
\* min_periods of them
RollingMean(prices, w, min_periods) ==
    [i \in 1..Len(prices) |->
        LET obs == {j \in Max(1, i - w + 1)..i : IsNum(prices[j])}
        IN IF Cardinality(obs) >= min_periods
           THEN DivInt(SumAt(prices, Max(1, i - w + 1), i), Cardinality(obs))
           ELSE NaN]

\* a mutant of rolling_mean: min_periods=1
rolling_mean_min_periods_1(prices, w) == RollingMean(prices, w, 1)

\* prices.rolling(w).mean(): min_periods defaults to the window
rolling_mean(prices, w) == RollingMean(prices, w, w)

\* The close series yf.download may give: n whole-dollar closes that vary
\* with stride k around 100.
Series(n, k) == [i \in 1..n |-> Num(100 + ((i * i * k) % 7), 1)]

----------------------------------------------------------------------------
(* create_chart_bytes *)

MIN_VALID_POINTS == 5

ProviderError == [tag |-> "ProviderError", n |-> 0, d |-> 1]

\* What yf.download may give: a provider error, or a frame of closes.
Downloads ==
    {[error |-> TRUE, closes |-> <<>>]}
      \cup {[error |-> FALSE, closes |-> Series(n, k)] : n \in 0..MaxSeriesLen, k \in 0..2}

\* ma.notna().sum()
ValidCount(ma) == Cardinality({i \in 1..Len(ma) : IsNum(ma[i])})

\* a mutant of OverlayDrawn: at least the minimum
OverlayDrawnAtLeast(ma) == ValidCount(ma) >= MIN_VALID_POINTS

\* if ma.notna().sum() > 5: plt.plot(...)
OverlayDrawn(ma) == ValidCount(ma) > MIN_VALID_POINTS

Label(w) == IF w = 20 THEN "20-Day MA" ELSE "50-Day MA"

\* the labels of the lines one call plots: the closes, then ma20 and ma50
ChartLines(prices) ==
    {"Close Price"} \cup {Label(w) : w \in {v \in MA_WINDOWS : OverlayDrawn(rolling_mean(prices, v))}}

\* create_chart_bytes called alone: the figure holds the lines of this call.
\* The result is the exception raised, or the lines of the saved image.
create_chart_bytes(data) ==
    IF data.error THEN [tag |-> "ProviderError", lines |-> {}]
    ELSE IF Len(data.closes) = 0 THEN [tag |-> "ValueError", lines |-> {}]
    ELSE [tag |-> "png", lines |-> ChartLines(data.closes)]

----------------------------------------------------------------------------
(* get_stock_report, generate_full_report *)

LOOKBACK_DAYS == 3

\* the days_ago of "today", "1d", "1w", "1m", "1y"
HORIZONS == <<0, 1, 7, 30, 365>>

IndexError == [tag |-> "IndexError", n |-> 0, d |-> 1]
NA == [tag |-> "N/A", n |-> 0, d |-> 1]

IsRaise(x) == x.tag \in {"ZeroDivisionError", "IndexError", "ProviderError"}

\* A history frame of a ticker: a provider error, or rows (ago, close), ago
\* the days between the row's date and today, close a number or NaN.
Row(ago, close) == [ago |-> ago, close |-> close]

\* the days a frame of the model may have a row for
RowDays == {0, 1, 4, 5, 7, 368}

CloseOn(ago) == Num(100 + ago, 1)

Frames ==
    {[error |-> TRUE, rows |-> {}]}
      \cup {[error |-> FALSE,
             rows |-> {Row(a, CloseOn(a)) : a \in valued} \cup {Row(a, NaN) : a \in nan}] :
               <<valued, nan>> \in {p \in (SUBSET RowDays) \X (SUBSET RowDays) :
                                     p[1] \cap p[2] = {}}}

\* the frames the full report is built from
ReportFrames ==
    {[error |-> TRUE, rows |-> {}],
     [error |-> FALSE, rows |-> {}],
     [error |-> FALSE, rows |-> {Row(0, NaN)}],
     [error |-> FALSE, rows |-> {Row(0, CloseOn(0))}],
     [error |-> FALSE, rows |-> {Row(a, CloseOn(a)) : a \in RowDays}]}

\* the row of the latest date
Latest(rows) == CHOOSE r \in rows : \A q \in rows : r.ago <= q.ago

\* get_price_on(days_ago): ticker.history(start=d-3, end=d+1), d = today -
\* days_ago; None for an empty frame, else hist["Close"].dropna().iloc[-1]
get_price_on(frame, days_ago) ==
    IF frame.error THEN ProviderError
    ELSE LET hist == {r \in frame.rows :
                        r.ago >= days_ago /\ r.ago <= days_ago + LOOKBACK_DAYS}
             valid == {r \in hist : IsNum(r.close)}
         IN IF hist = {} THEN None
            ELSE IF valid = {} THEN IndexError
            ELSE Latest(valid).close

\* x to two decimals, as the format specs :.2f and :+.2f round it
Fmt2(x) ==
    LET q == (x.n * 100) \div x.d
        twice == 2 * (x.n * 100 - q * x.d)
        up == twice > x.d \/ (twice = x.d /\ q % 2 = 1)
    IN Num(IF up THEN q + 1 ELSE q, 100)

\* fmt_change(now, then): the formatted change, "N/A", or the exception
fmt_change(now, then) ==
    LET c == pct_change(now, then)
    IN IF IsRaise(c) THEN c
       ELSE IF c = None THEN NA
       ELSE Fmt2(c)

Raised(e) == [tag |-> e.tag, symbol |-> "", today |-> NA, changes |-> <<>>, prices |-> <<>>]

\* get_stock_report(symbol): the entry of the symbol, or the exception raised
get_stock_report(symbol, frame) ==
    LET prices == [i \in 1..Len(HORIZONS) |-> get_price_on(frame, HORIZONS[i])]
        changes == [i \in 1..(Len(HORIZONS) - 1) |-> fmt_change(prices[1], prices[i + 1])]
        badPrice == {i \in 1..Len(prices) : IsRaise(prices[i])}
        badChange == {i \in 1..Len(changes) : IsRaise(changes[i])}
        First(js) == CHOOSE i \in js : \A j \in js : i <= j
    IN IF badPrice # {} THEN Raised(prices[First(badPrice)])
       ELSE IF badChange # {} THEN Raised(changes[First(badChange)])
       ELSE [tag |-> "ok", symbol |-> symbol,
             today |-> IF Falsy(prices[1]) THEN NA ELSE Fmt2(prices[1]),
             changes |-> changes, prices |-> prices]

\* generate_full_report(): the entries of the symbols in the order of STOCKS,
\* or the exception one of them raised
generate_full_report(frames) ==
    LET reports == [i \in 1..NumSymbols |-> get_stock_report(STOCKS[i].symbol, frames[i])]
        bad == {i \in 1..NumSymbols : reports[i].tag # "ok"}
    IN IF bad # {}
       THEN [tag |-> reports[CHOOSE i \in bad : \A j \in bad : i <= j].tag, entries |-> <<>>]
       ELSE [tag |-> "ok", entries |-> reports]

----------------------------------------------------------------------------
(* Telegram commands: report_command, chart_command, send_stock_chart_async,
   error_handler *)

\* What a handler leaves behind: the messages the chat received, whether an
\* exception reached error_handler (which prints it and sends nothing), and
\* whether create_chart_bytes was called.
Outcome(replies, printed, builder) ==
    [replies |-> replies, printed |-> printed, builder |-> builder]

Msg(kind, text) == [kind |-> kind, text |-> text]

UsageMsg == Msg("text", "Usage: /chart SYMBOL")

\* a call of the Telegram API succeeds or raises
Telegram == {"ok", "fail"}

\* await <send>(msg): the message is delivered, or the exception propagates
\* out of the handler to error_handler
Send(msg, telegram, builder) ==
    IF telegram = "ok" THEN Outcome(<<msg>>, FALSE, builder)
    ELSE Outcome(<<>>, TRUE, builder)

\* report_command: reply_text(generate_full_report()), nothing caught
report_command(frames, telegram) ==
    LET report == generate_full_report(frames)
    IN IF report.tag # "ok" THEN Outcome(<<>>, TRUE, FALSE)
       ELSE Send(Msg("text", "report"), telegram, FALSE)

\* the argument lists of /chart in the model
ChartArgs == {<<>>, <<"nvda">>, <<"NVDA">>, <<"foo">>, <<"SPY", "1mo">>}

\* str.upper()
Upper(str) ==
    CASE str = "nvda" -> "NVDA"
      [] str = "foo" -> "FOO"
      [] OTHER -> str

\* what yf.download gives the chart handler in the model
ChartDownloads ==
    {[error |-> TRUE, closes |-> <<>>]}
      \cup {[error |-> FALSE, closes |-> Series(n, 1)] : n \in {0, MaxSeriesLen}}

\* send_stock_chart_async: the exception of create_chart_bytes is answered
\* with a warning, the image is sent as <symbol>.png
send_stock_chart_async(symbol, data, telegram) ==
    LET png == create_chart_bytes(data)
    IN IF png.tag # "png" THEN Send(Msg("text", "warning"), telegram, TRUE)
       ELSE Send(Msg("photo", symbol), telegram, TRUE)

\* chart_command: the usage message without arguments, else the chart of
\* context.args[0].upper()
chart_command(argv, data, telegram) ==
    IF argv = <<>> THEN Send(UsageMsg, telegram, FALSE)
    ELSE send_stock_chart_async(Upper(argv[1]), data, telegram)

\* the arguments pct_change is applied to
PctInputs == {None} \cup {Num(x, 1) : x \in {0, 50, 100, 102}} \cup {Num(205, 2)}

----------------------------------------------------------------------------
(* The environment of the monitor thread *)

Dollars(x) == Num(x, 1)
Mid(cfg) == (cfg.upper.n + cfg.lower.n) \div 2

\* What the two yfinance calls of one loop body can give for a symbol: a
\* provider error, or the closes of history("1d") and history("2d").
Responses(cfg) ==
    LET up == cfg.upper.n
        lo == cfg.lower.n
        mid == Mid(cfg)
        ok(h1, h2) == [error |-> FALSE, h1 |-> h1, h2 |-> h2]
    IN { [error |-> TRUE, h1 |-> <<>>, h2 |-> <<>>],
         ok(<<>>, <<Dollars(mid), Dollars(mid)>>),
         ok(<<Dollars(mid)>>, <<Dollars(mid)>>),
         ok(<<Dollars(mid)>>, <<Dollars(mid), Dollars(mid)>>),
         ok(<<Dollars(up)>>, <<Dollars(up - 1), Dollars(up)>>),
         ok(<<Dollars(up)>>, <<Dollars(mid), Dollars(up)>>),
         ok(<<Dollars(lo)>>, <<Dollars(mid), Dollars(lo)>>) }

\* the tick intervals the loop is run with
Intervals == {20, 60, CHECK_INTERVAL}

MinutesPerDay == 24 * 60
Minute(h, m) == h * 60 + m
\* the local times at which the thread may start
StartClocks == {Minute(16, 55), Minute(16, 58), Minute(17, 0)}

\* The minutes the clock moves while secs seconds (and the time the calls
\* around them take, less than a minute) go by.
SleepMinutes(secs) == {secs \div 60, secs \div 60 + 1}

----------------------------------------------------------------------------
(* monitor_prices *)

Alert(cfg, kind, direction) ==
    [symbol |-> cfg.symbol, kind |-> kind, direction |-> direction]

\* a mutant of SkipSymbol: only the price is tested
SkipSymbolPriceOnly(price, prev) == Falsy(price)

\* if not price or not prev: continue
SkipSymbol(price, prev) == Falsy(price) \/ Falsy(prev)

\* the price threshold alerts: if price >= upper ... elif price <= lower ...
ThresholdSends(cfg, price) ==
    IF Geq(price, cfg.upper) THEN <<Alert(cfg, "upper", "")>>
    ELSE IF Leq(price, cfg.lower) THEN <<Alert(cfg, "lower", "")>>
    ELSE <<>>

\* a mutant of MomentumSends: the directions are swapped
MomentumSendsSwapped(cfg, change) ==
    IF Geq(AbsNum(change), cfg.pct_trigger)
    THEN <<Alert(cfg, "momentum", IF change.n > 0 THEN "down" ELSE "up")>>
    ELSE <<>>

\* the % change alert: if abs(change) >= pct_trigger ...
MomentumSends(cfg, change) ==
    IF Geq(AbsNum(change), cfg.pct_trigger)
    THEN <<Alert(cfg, "momentum", IF change.n > 0 THEN "up" ELSE "down")>>
    ELSE <<>>

\* the conditions a sample satisfies
Cond(cfg, price, change) ==
    [upper |-> Geq(price, cfg.upper),
     lower |-> Leq(price, cfg.lower),
     momentum |-> Geq(AbsNum(change), cfg.pct_trigger)]

NoCond == [upper |-> FALSE, lower |-> FALSE, momentum |-> FALSE]

\* outcome: "idle", "skipped", "evaluated", or the call that raised:
\* "gateway", "print", "send"
Idle == [symbol |-> "", price |-> None, prev |-> None, change |-> None, outcome |-> "idle"]

\* a mutant of ExceptClause: the exception is not caught and ends the thread
ExceptClauseMissing == "terminated"

\* except Exception as e: print(...); control goes on to time.sleep(CHECK_INTERVAL)
ExceptClause == "sleep"

HHMM(c) == <<c \div 60, c % 60>>

\* a mutant of ReportDue: at or after 17:00
ReportDueAtOrAfter(c) == c >= Minute(17, 0)

\* now = time.strftime("%H:%M"); now == "17:00"
ReportDue(c) == HHMM(c) = <<17, 0>>

Range(seq) == {seq[i] : i \in 1..Len(seq)}

\* One pass of the for loop's body, for the symbol at idx.
EvalSymbol ==
    /\ pc = "for"
    /\ LET cfg == STOCKS[idx]
           next == IF idx = NumSymbols THEN "daily" ELSE "for"
       IN \E resp \in Responses(cfg) :
            IF resp.error
            THEN \* get_price or get_prev_close raises
                 /\ cur' = [Idle EXCEPT !.symbol = cfg.symbol, !.outcome = "gateway"]
                 /\ sent' = {}
                 /\ tickErr' = TRUE
                 /\ pc' = ExceptClause
                 /\ UNCHANGED <<idx, lastCond>>
            ELSE LET price == get_price(resp.h1)
                     prev == get_prev_close(resp.h2)
                     change == pct_change(price, prev)
                     seen == [symbol |-> cfg.symbol, price |-> price, prev |-> prev,
                              change |-> change, outcome |-> "skipped"]
                 IN IF SkipSymbol(price, prev)
                    THEN \* continue
                         /\ cur' = seen
                         /\ sent' = {}
                         /\ idx' = idx + 1
                         /\ pc' = next
                         /\ UNCHANGED <<tickErr, lastCond>>
                    ELSE IF ~IsNum(change) \/ ~IsNum(price)
                    THEN \* print(f"... ${price:.2f} ({change:+.2f}%)") raises
                         /\ cur' = [seen EXCEPT !.outcome = "print"]
                         /\ sent' = {}
                         /\ tickErr' = TRUE
                         /\ pc' = ExceptClause
                         /\ UNCHANGED <<idx, lastCond>>
                    ELSE LET sends == ThresholdSends(cfg, price) \o MomentumSends(cfg, change)
                         IN \E k \in 0..Len(sends) :
                              \* the first k calls of bot.send_message return,
                              \* the next one (if any) raises
                              /\ sent' = Range(SubSeq(sends, 1, k))
                              /\ IF k = Len(sends)
                                 THEN /\ cur' = [seen EXCEPT !.outcome = "evaluated"]
                                      /\ lastCond' = [lastCond EXCEPT
                                                        ![cfg.symbol] = Cond(cfg, price, change)]
                                      /\ idx' = idx + 1
                                      /\ pc' = next
                                      /\ UNCHANGED tickErr
                                 ELSE /\ cur' = [seen EXCEPT !.outcome = "send"]
                                      /\ tickErr' = TRUE
                                      /\ pc' = ExceptClause
                                      /\ UNCHANGED <<idx, lastCond>>
    /\ done' = done \cup {STOCKS[idx].symbol}
    /\ UNCHANGED <<clock, interval, checked, reportsToday, dueSeen, afterError, ticks>>
    /\ UNCHANGED <<transformVars, chartVars>>

\* The daily report at 17:00, after the for loop.
DailyCheck ==
    /\ pc = "daily"
    /\ checked' = TRUE
    /\ cur' = Idle
    /\ sent' = {}
    /\ IF ReportDue(clock)
       THEN \E delivered \in BOOLEAN :
              IF delivered
              THEN \* bot.send_message(generate_full_report()); time.sleep(60)
                   \E m \in SleepMinutes(REPORT_SLEEP) :
                     /\ reportsToday' = reportsToday + 1
                     /\ dueSeen' = TRUE
                     /\ clock' = clock + m
                     /\ pc' = "sleep"
                     /\ UNCHANGED tickErr
              ELSE \* generate_full_report or bot.send_message raises
                   /\ tickErr' = TRUE
                   /\ pc' = ExceptClause
                   /\ UNCHANGED <<reportsToday, dueSeen, clock>>
       ELSE /\ dueSeen' = (dueSeen \/ clock >= Minute(17, 0))
            /\ pc' = "sleep"
            /\ UNCHANGED <<reportsToday, clock, tickErr>>
    /\ UNCHANGED <<idx, interval, done, lastCond, afterError, ticks>>
    /\ UNCHANGED <<transformVars, chartVars>>

\* time.sleep(CHECK_INTERVAL), then the next pass of while True.
Sleep ==
    /\ pc = "sleep"
    /\ ticks < MaxTicks
    /\ \E m \in SleepMinutes(interval) :
         LET t == clock + m
         IN /\ clock' = t % MinutesPerDay
            /\ reportsToday' = IF t >= MinutesPerDay THEN 0 ELSE reportsToday
            /\ dueSeen' = IF t >= MinutesPerDay THEN FALSE ELSE dueSeen
    /\ pc' = "for"
    /\ idx' = 1
    /\ cur' = Idle
    /\ sent' = {}
    /\ done' = {}
    /\ tickErr' = FALSE
    /\ checked' = FALSE
    /\ afterError' = tickErr
    /\ ticks' = ticks + 1
    /\ UNCHANGED <<interval, lastCond>>
    /\ UNCHANGED <<transformVars, chartVars>>

TransformIdle ==
    /\ fn = "none"
    /\ args = <<>>
    /\ ret = None

----------------------------------------------------------------------------
(* pyplot's state, shared by the threads that call create_chart_bytes *)

Workers == 1..NumWorkers

\* a figure: the worker whose call created it, the lines plotted on it (the
\* symbol of the plotting call and the label) and its title
NewFigure(w) == [owner |-> w, lines |-> {}, title |-> ""]

NoImage == [lines |-> {}, title |-> ""]

IdleWorker == [pc |-> "idle", symbol |-> "", overlays |-> {}, image |-> NoImage]

\* plt.gcf(): the current figure, a new one being created when none is open
Gcf(figs, w) == IF figs = <<>> THEN <<NewFigure(w)>> ELSE figs

\* plt.plot(..., label=label) by a call for symbol: a line on the current figure
PlotOn(figs, w, symbol, label) ==
    LET g == Gcf(figs, w)
    IN [g EXCEPT ![Len(g)].lines = @ \cup {<<symbol, label>>}]

\* plt.close(): the current figure is destroyed, the one activated before it
\* becomes current
CloseCurrent(figs) == IF figs = <<>> THEN figs ELSE SubSeq(figs, 1, Len(figs) - 1)

ChartIdle ==
    /\ figures = <<>>
    /\ worker = [w \in Workers |-> IdleWorker]

\* monitor_prices(bot) has just been started as a thread.
Init ==
    /\ pc = "for"
    /\ idx = 1
    /\ clock \in StartClocks
    /\ interval \in Intervals
    /\ cur = Idle
    /\ sent = {}
    /\ done = {}
    /\ tickErr = FALSE
    /\ checked = FALSE
    /\ lastCond = [s \in Symbols |-> NoCond]
    /\ reportsToday = 0
    /\ dueSeen = FALSE
    /\ afterError = FALSE
    /\ ticks = 1
    /\ TransformIdle
    /\ ChartIdle

Next == EvalSymbol \/ DailyCheck \/ Sleep

Spec == Init /\ [][Next]_vars

----------------------------------------------------------------------------
(* Shutdown *)

\* A termination signal reaches the process: app.run_polling() returns, main
\* returns, and the daemon thread stops wherever it is.
Terminate ==
    /\ pc \in {"for", "daily", "sleep"}
    /\ pc' = "terminated"
    /\ UNCHANGED <<idx, clock, interval, cur, sent, done, tickErr, checked,
                   lastCond, reportsToday, dueSeen, afterError, ticks>>
    /\ UNCHANGED <<transformVars, chartVars>>

NextShutdown == Next \/ Terminate

SpecShutdown == Init /\ [][NextShutdown]_vars

----------------------------------------------------------------------------
(* Price Transform, applied to drawn inputs *)

CallPctChange ==
    /\ fn = "none"
    /\ \E now \in PctInputs, then \in PctInputs :
         /\ fn' = "pct_change"
         /\ args' = <<now, then>>
         /\ ret' = pct_change(now, then)
    /\ UNCHANGED <<monitorVars, chartVars>>

CallRollingMean ==
    /\ fn = "none"
    /\ \E n \in 0..MaxSeriesLen, k \in 0..2, w \in MA_WINDOWS :
         /\ fn' = "rolling_mean"
         /\ args' = <<Series(n, k), w>>
         /\ ret' = rolling_mean(Series(n, k), w)
    /\ UNCHANGED <<monitorVars, chartVars>>

\* The configurations the threshold tests are applied to: the entries of
\* STOCKS, and for each one entry with the two thresholds exchanged and one
\* with both at the upper value (lower >= upper).
Configs ==
    LET cs == {STOCKS[i] : i \in 1..Len(STOCKS)}
    IN cs \cup {[c EXCEPT !.upper = c.lower, !.lower = c.upper] : c \in cs}
          \cup {[c EXCEPT !.lower = c.upper] : c \in cs}

\* the prices around the thresholds of a configuration
PricesAround(cfg) ==
    {Dollars(x) : x \in {cfg.lower.n - 1, cfg.lower.n, Mid(cfg),
                         cfg.upper.n, cfg.upper.n + 1}}

\* the threshold tests of the loop body, for a configuration and a price
CallThresholdSends ==
    /\ fn = "none"
    /\ \E cfg \in Configs :
         \E price \in PricesAround(cfg) :
           /\ fn' = "threshold_alerts"
           /\ args' = <<cfg, price>>
           /\ ret' = ThresholdSends(cfg, price)
    /\ UNCHANGED <<monitorVars, chartVars>>

\* the caller has used the result
Return ==
    /\ fn # "none"
    /\ fn' = "none"
    /\ args' = <<>>
    /\ ret' = None
    /\ UNCHANGED <<monitorVars, chartVars>>

InitTransform ==
    /\ pc = "for"
    /\ idx = 1
    /\ clock = Minute(16, 55)
    /\ interval = CHECK_INTERVAL
    /\ cur = Idle
    /\ sent = {}
    /\ done = {}
    /\ tickErr = FALSE
    /\ checked = FALSE
    /\ lastCond = [s \in Symbols |-> NoCond]
    /\ reportsToday = 0
    /\ dueSeen = FALSE
    /\ afterError = FALSE
    /\ ticks = 1
    /\ TransformIdle
    /\ ChartIdle

NextTransform == CallPctChange \/ CallRollingMean \/ CallThresholdSends \/ Return

SpecTransform == InitTransform /\ [][NextTransform]_vars

----------------------------------------------------------------------------
(* Reports, charts and commands on demand, applied to drawn inputs *)

CallCreateChart ==
    /\ fn = "none"
    /\ \E data \in Downloads :
         /\ fn' = "create_chart_bytes"
         /\ args' = <<data>>
         /\ ret' = create_chart_bytes(data)
    /\ UNCHANGED <<monitorVars, chartVars>>

CallGetStockReport ==
    /\ fn = "none"
    /\ \E i \in 1..NumSymbols, frame \in Frames :
         /\ fn' = "get_stock_report"
         /\ args' = <<STOCKS[i].symbol, frame>>
         /\ ret' = get_stock_report(STOCKS[i].symbol, frame)
    /\ UNCHANGED <<monitorVars, chartVars>>

CallGenerateFullReport ==
    /\ fn = "none"
    /\ \E frames \in [1..NumSymbols -> ReportFrames] :
         /\ fn' = "generate_full_report"
         /\ args' = <<frames>>
         /\ ret' = generate_full_report(frames)
    /\ UNCHANGED <<monitorVars, chartVars>>

CallReportCommand ==
    /\ fn = "none"
    /\ \E frames \in [1..NumSymbols -> ReportFrames], telegram \in Telegram :
         /\ fn' = "report_command"
         /\ args' = <<frames, telegram>>
         /\ ret' = report_command(frames, telegram)
    /\ UNCHANGED <<monitorVars, chartVars>>

CallChartCommand ==
    /\ fn = "none"
    /\ \E argv \in ChartArgs, data \in ChartDownloads, telegram \in Telegram :
         /\ fn' = "chart_command"
         /\ args' = <<argv, data, telegram>>
         /\ ret' = chart_command(argv, data, telegram)
    /\ UNCHANGED <<monitorVars, chartVars>>

NextOnDemand ==
    \/ CallCreateChart
    \/ CallGetStockReport
    \/ CallGenerateFullReport
    \/ CallReportCommand
    \/ CallChartCommand
    \/ Return

SpecOnDemand == InitTransform /\ [][NextOnDemand]_vars

----------------------------------------------------------------------------
(* create_chart_bytes on worker threads, statement by statement *)

\* the labels of the overlays in the order they are plotted
OverlaySteps == [ma20 |-> Label(20), ma50 |-> Label(50)]

\* asyncio.to_thread(create_chart_bytes, symbol): the download, the empty
\* test and the moving averages, which touch no shared state
StartChart(w) ==
    /\ worker[w].pc = "idle"
    /\ \E symbol \in Symbols, data \in ChartDownloads :
         LET png == create_chart_bytes(data)
         IN worker' = [worker EXCEPT ![w] =
                IF png.tag # "png"
                THEN [IdleWorker EXCEPT !.pc = "raised", !.symbol = symbol]
                ELSE [IdleWorker EXCEPT !.pc = "figure", !.symbol = symbol,
                                        !.overlays = png.lines \ {"Close Price"}]]
    /\ UNCHANGED figures
    /\ UNCHANGED <<monitorVars, transformVars>>

\* plt.figure(figsize=(10, 5)): a new figure, made current
PltFigure(w) ==
    /\ worker[w].pc = "figure"
    /\ figures' = Append(figures, NewFigure(w))
    /\ worker' = [worker EXCEPT ![w].pc = "plot"]
    /\ UNCHANGED <<monitorVars, transformVars>>

\* plt.plot(prices.index, prices.values, label="Close Price")
PltPlotClose(w) ==
    /\ worker[w].pc = "plot"
    /\ figures' = PlotOn(figures, w, worker[w].symbol, "Close Price")
    /\ worker' = [worker EXCEPT ![w].pc = "ma20"]
    /\ UNCHANGED <<monitorVars, transformVars>>

\* if ma.notna().sum() > 5: plt.plot(ma.index, ma.values, label=...)
PltPlotOverlay(w) ==
    /\ worker[w].pc \in {"ma20", "ma50"}
    /\ LET label == OverlaySteps[worker[w].pc]
       IN figures' = IF label \in worker[w].overlays
                     THEN PlotOn(figures, w, worker[w].symbol, label)
                     ELSE figures
    /\ worker' = [worker EXCEPT ![w].pc = IF @ = "ma20" THEN "ma50" ELSE "title"]
    /\ UNCHANGED <<monitorVars, transformVars>>

\* plt.title(f"{symbol} Price ({period})") ... plt.grid(True)
PltTitle(w) ==
    /\ worker[w].pc = "title"
    /\ figures' = LET g == Gcf(figures, w)
                  IN [g EXCEPT ![Len(g)].title = worker[w].symbol]
    /\ worker' = [worker EXCEPT ![w].pc = "savefig"]
    /\ UNCHANGED <<monitorVars, transformVars>>

\* plt.savefig(buffer, format="png", bbox_inches="tight"): the current figure
PltSavefig(w) ==
    /\ worker[w].pc = "savefig"
    /\ figures' = Gcf(figures, w)
    /\ worker' = [worker EXCEPT ![w].pc = "close",
                                ![w].image = [lines |-> figures'[Len(figures')].lines,
                                              title |-> figures'[Len(figures')].title]]
    /\ UNCHANGED <<monitorVars, transformVars>>

\* plt.close(); return buffer.read()
PltClose(w) ==
    /\ worker[w].pc = "close"
    /\ figures' = CloseCurrent(figures)
    /\ worker' = [worker EXCEPT ![w].pc = "done"]
    /\ UNCHANGED <<monitorVars, transformVars>>

NextChart ==
    \/ \E w \in Workers : StartChart(w)
    \/ \E w \in Workers : PltFigure(w)
    \/ \E w \in Workers : PltPlotClose(w)
    \/ \E w \in Workers : PltPlotOverlay(w)
    \/ \E w \in Workers : PltTitle(w)
    \/ \E w \in Workers : PltSavefig(w)
    \/ \E w \in Workers : PltClose(w)

SpecChart == InitTransform /\ [][NextChart]_vars

----------------------------------------------------------------------------
(* The alert conditions, tick after tick *)

\* the step is the loop body of the i-th symbol, run to its end
Evaluates(i) == pc = "for" /\ idx = i /\ cur'.outcome = "evaluated"

\* C1: a ThresholdCrossed{upper} alert is emitted exactly once per contiguous
\* run of evaluated ticks with price >= upper: a loop body that runs to its
\* end sends the upper alert exactly when price >= upper and the symbol's
\* previous evaluated sample was below upper.
C1_UpperOncePerRun ==
    [][\A i \in 1..NumSymbols :
         Evaluates(i) =>
            (Alert(STOCKS[i], "upper", "") \in sent'
               <=> (Geq(cur'.price, STOCKS[i].upper) /\ ~lastCond[STOCKS[i].symbol].upper))]_vars

\* C2: a ThresholdCrossed{lower} alert is emitted exactly once per contiguous
\* run of evaluated ticks with price <= lower: a loop body that runs to its
\* end sends the lower alert exactly when price <= lower and the symbol's
\* previous evaluated sample was above lower.
C2_LowerOncePerRun ==
    [][\A i \in 1..NumSymbols :
         Evaluates(i) =>
            (Alert(STOCKS[i], "lower", "") \in sent'
               <=> (Leq(cur'.price, STOCKS[i].lower) /\ ~lastCond[STOCKS[i].symbol].lower))]_vars

\* C3: the MomentumMove alert is edge-triggered: a loop body sends it only if
\* the symbol's previous evaluated sample did not already have
\* |change| >= pct_trigger.
C3_MomentumEdgeTriggered ==
    [][\A i \in 1..NumSymbols :
         (Evaluates(i) /\ \E a \in sent' : a.kind = "momentum")
            => ~lastCond[STOCKS[i].symbol].momentum]_vars

----------------------------------------------------------------------------
(* The daily report *)

\* C4: at most one DailyReport is sent per calendar date.
C4_AtMostOneReportPerDate == reportsToday <= 1

\* a later tick of the date of a report makes the 17:00 comparison
C4_Witness == reportsToday = 1 /\ pc = "daily" /\ clock > Minute(17, 0)

\* C5: on a date on which a tick compares the time at or after 17:00, exactly
\* one DailyReport is sent, by the first such tick.
C5_ExactlyOneReportPerDay == dueSeen => reportsToday = 1

----------------------------------------------------------------------------
(* Errors and gaps *)

\* C6: when a call for one symbol raises, every other symbol is still fetched
\* and evaluated in the same tick: at the end of a tick the loop body of every
\* configured symbol has been entered.
C6_OtherSymbolsStillEvaluated == pc = "sleep" => done = Symbols

\* C7: a loop body whose price or previous close is absent is skipped: it
\* sends no alert, raises nothing, goes on to the next symbol, and changes
\* nothing but the position of the loop.
C7_GapTickSkipsSymbol ==
    [][\A i \in 1..NumSymbols :
         (/\ pc = "for" /\ idx = i
          /\ cur'.symbol = STOCKS[i].symbol
          /\ cur'.outcome # "gateway"
          /\ (cur'.price = None \/ cur'.prev = None))
         => /\ cur'.outcome = "skipped"
            /\ sent' = {}
            /\ idx' = i + 1
            /\ pc' \in {"for", "daily"}
            /\ UNCHANGED <<clock, interval, tickErr, checked, lastCond,
                           reportsToday, dueSeen, afterError, ticks>>]_vars

\* a tick without the previous close, for a symbol whose previous evaluated
\* sample was at or above its upper threshold
C7_Witness ==
    /\ cur.outcome = "skipped"
    /\ cur.price # None /\ cur.prev = None
    /\ lastCond[cur.symbol].upper

\* C8: the loop never exits on its own: the thread is always at a position of
\* the loop, an exception in a tick takes it to the sleep between two ticks,
\* and it has a next step.
C8_LoopNeverExits ==
    /\ pc \in {"for", "daily", "sleep"}
    /\ tickErr => pc = "sleep"
    /\ (pc = "sleep" /\ ticks < MaxTicks) => ENABLED Sleep

\* a tick that follows a tick in which a call raised evaluates a symbol
C8_Witness == afterError /\ cur.outcome = "evaluated"

----------------------------------------------------------------------------
(* Price Transform *)

\* r = (now - then) / then * 100
IsPctChange(r, now, then) ==
    /\ IsNum(r)
    /\ r.n * (now.d * then.n) = r.d * ((now.n * then.d - then.n * now.d) * 100)

\* C9: pct_change(now, then) returns (now - then) / then * 100 when both
\* inputs are present and then # 0 (102 against 100 gives +2), and returns
\* None, raising nothing, when an input is absent or then = 0.
C9_PctChangeContract ==
    fn = "pct_change" =>
        LET now == args[1]
            then == args[2]
        IN /\ (now # None /\ then # None /\ then.n # 0) => IsPctChange(ret, now, then)
           /\ (now = Num(102, 1) /\ then = Num(100, 1)) => ret = Num(2, 1)
           /\ (now = None \/ then = None \/ then.n = 0) => ret = None

\* C10: the moving average with window w has one entry per close; the entry
\* at index i (from 1) is a value exactly when i >= w, and the value is the
\* arithmetic mean of the w closes ending at i.  So a series shorter than w
\* has no value, and a series of w closes has one, the mean of all of them.
C10_MovingAverageValidFromWindow ==
    fn = "rolling_mean" =>
        LET prices == args[1]
            w == args[2]
            valid == {i \in 1..Len(ret) : IsNum(ret[i])}
        IN /\ Len(ret) = Len(prices)
           /\ valid = {i \in 1..Len(prices) : i >= w}
           /\ \A i \in valid :
                ret[i].n * w = ret[i].d * SumAt(prices, i - w + 1, i).n
           /\ Len(prices) < w => valid = {}
           /\ Len(prices) = w => valid = {w}

\* a series of exactly w closes that are not all equal
C10_Witness ==
    /\ fn = "rolling_mean"
    /\ Len(args[1]) = args[2]
    /\ \E i \in 1..Len(args[1]) : args[1][i] # args[1][1]
    /\ IsNum(ret[args[2]])

----------------------------------------------------------------------------
(* Shutdown, the daily check and the alerts of a tick *)

\* C17: on a termination signal the loop finishes the tick in progress and
\* then stops: the thread stops only from the sleep between two ticks, never
\* from inside the for loop or before the daily check.
C17_FinishesTickThenStops ==
    [][pc' = "terminated" => pc \in {"sleep", "terminated"}]_vars

\* C19: the 17:00 comparison is made in every tick, also in a tick in which a
\* symbol raised: when a tick ends, the comparison has been made.
C19_DailyCheckEveryTick == pc = "sleep" => checked

CfgOf(symbol) == CHOOSE c \in Range(STOCKS) : c.symbol = symbol

\* C20: every alert a loop body sends is justified by the sample of that body:
\* upper only with price >= upper, lower only with price <= lower, momentum
\* only with price and previous close present and |change| >= pct_trigger,
\* its direction "up" exactly when change > 0 and "down" otherwise.
C20_AlertsJustifiedBySample ==
    \A a \in sent :
        LET cfg == CfgOf(a.symbol)
        IN /\ a.symbol = cur.symbol
           /\ IsNum(cur.price)
           /\ a.kind \in {"upper", "lower", "momentum"}
           /\ a.kind = "upper" => Geq(cur.price, cfg.upper)
           /\ a.kind = "lower" => Leq(cur.price, cfg.lower)
           /\ a.kind = "momentum" =>
                /\ IsNum(cur.prev)
                /\ IsPctChange(cur.change, cur.price, cur.prev)
                /\ Geq(AbsNum(cur.change), cfg.pct_trigger)
                /\ a.direction = (IF cur.change.n > 0 THEN "up" ELSE "down")

\* a body that sends a lower alert and a downward momentum alert
C20_Witness ==
    /\ \E a \in sent : a.kind = "momentum" /\ a.direction = "down"
    /\ \E a \in sent : a.kind = "lower"

----------------------------------------------------------------------------
(* Overlapping thresholds *)

\* C14: with overlapping thresholds (lower >= upper) and a price with
\* price >= upper and price <= lower, the two tests are made independently
\* and both the upper and the lower alert are sent.
C14_BothFireWhenOverlapping ==
    fn = "threshold_alerts" =>
        LET cfg == args[1]
            price == args[2]
        IN (Geq(cfg.lower, cfg.upper) /\ Geq(price, cfg.upper) /\ Leq(price, cfg.lower))
           => {Alert(cfg, "upper", ""), Alert(cfg, "lower", "")} \subseteq Range(ret)

----------------------------------------------------------------------------
(* Chart Builder *)

----------------------------------------------------------------------------
(* Report Builder *)

\* the closes of a frame dated in the lookback window of horizon h
Available(frame, h) ==
    {r \in frame.rows : IsNum(r.close) /\ r.ago >= h /\ r.ago <= h + LOOKBACK_DAYS}

\* C12: for each horizon h of 0, 1, 7, 30 and 365 days, get_stock_report uses
\* the most recent available close dated at or before today - h within the
\* lookback window, and the value is absent when the window has no close; a
\* frame with today's close alone gives today's price and four absent changes.
C12_HorizonCloses ==
    (fn = "get_stock_report" /\ ~args[2].error) =>
        LET frame == args[2]
        IN /\ ret.tag = "ok"
           /\ \A i \in 1..Len(HORIZONS) :
                ret.prices[i] = (IF Available(frame, HORIZONS[i]) = {} THEN None
                                 ELSE Latest(Available(frame, HORIZONS[i])).close)
           /\ frame.rows = {Row(0, CloseOn(0))} =>
                (ret.today = Fmt2(CloseOn(0)) /\ \A i \in 1..4 : ret.changes[i] = NA)

\* C13: generate_full_report never fails as a whole for the missing data or
\* the failed fetch of one symbol: it returns one entry per configured symbol
\* in the order of the configuration, the entries of the symbols with data
\* carry their values and the fields of the others are absent.
C13_FullReportNeverFails ==
    fn = "generate_full_report" =>
        LET frames == args[1]
        IN /\ ret.tag = "ok"
           /\ Len(ret.entries) = NumSymbols
           /\ \A i \in 1..NumSymbols :
                /\ ret.entries[i].symbol = STOCKS[i].symbol
                /\ (frames[i].error \/ frames[i].rows = {}) =>
                      (ret.entries[i].today = NA
                         /\ \A j \in 1..4 : ret.entries[i].changes[j] = NA)
                /\ (~frames[i].error /\ frames[i].rows # {}) =>
                      ret.entries[i] = get_stock_report(STOCKS[i].symbol, frames[i])

----------------------------------------------------------------------------
(* Telegram commands *)

\* C15: a /report or /chart request whose data is unavailable or whose
\* fetch fails ends with a message in the requesting chat, never with an
\* unanswered request or an exception out of the handler (the Telegram API
\* itself working).
C15_RequestAlwaysAnswered ==
    /\ (fn = "report_command" /\ args[2] = "ok") =>
          (Len(ret.replies) >= 1 /\ ~ret.printed)
    /\ (fn = "chart_command" /\ args[3] = "ok") =>
          (Len(ret.replies) >= 1 /\ ~ret.printed)

\* C16: /chart answers a missing symbol argument and a symbol that is not
\* configured with the usage message, and does not call create_chart_bytes.
C16_ChartRejectsBadSymbol ==
    (fn = "chart_command" /\ args[3] = "ok"
       /\ (args[1] = <<>> \/ Upper(args[1][1]) \notin Symbols)) =>
          (ret.replies = <<UsageMsg>> /\ ~ret.builder)

----------------------------------------------------------------------------
(* Concurrent charts *)

====
